---- MODULE Spec2Model ----
(***************************************************************************)
(* A model of drillmaster/services.py: the definition registry            *)
(* (ServiceCollection.load_definitions, check_circular_dependencies), the  *)
(* run coordinator (RunningContext, start_next, service_failed,            *)
(* start_all), the driver start_services, and the service agents that the  *)
(* coordinator launches.                                                   *)
(***************************************************************************)
EXTENDS Integers, Sequences, FiniteSets, TLC

\* ------------------------------------------------------------------ bounds

\* Largest number of declared service classes.
MaxServices == 3
\* Longest declared dependency list.
MaxDeps == 2
\* Readiness timeout, in clock ticks.
Timeout == 1
\* Longest time one readiness check plus its sleep takes, in clock ticks.
MaxTick == 1

\* The service names a declaration can carry.
NamePool == <<"db", "api", "web">>

\* The names of the declarations of distinct names that a diamond needs.
GraphPool == NamePool \o <<"cache">>

Range(s) == { s[i] : i \in 1..Len(s) }

PoolNames == Range(NamePool)

Names == Range(GraphPool)

NoRepeat(s) == Cardinality(Range(s)) = Len(s)

\* Sequences over S of length at most n.
RECURSIVE SeqsUpTo(_, _)
SeqsUpTo(S, n) ==
  IF n = 0 THEN { <<>> }
  ELSE LET shorter == SeqsUpTo(S, n - 1)
       IN  shorter \cup { Append(s, x) : s \in shorter, x \in S }

\* Declared dependency lists: names in declared order, none repeated.
DepLists == { s \in SeqsUpTo(PoolNames, MaxDeps) : NoRepeat(s) }

\* A declared service class: the fields load_definitions reads.
ServiceClasses == [ name : PoolNames, dependencies : DepLists ]

\* ------------------------------------------------- the definition registry

\* The outcomes of load_definitions: success, the four ServiceLoadErrors, and
\* the KeyError of resolving a dependency name that no loaded class carries.
NoError == "none"
NoServicesDefined == "No services defined"
ExcludedDependency == "is to be excluded, but depends on it"
RepeatedServiceName == "Repeated service names"
CircularDependency == "Circular dependency detected"
UnresolvedDependency == "KeyError"

\* all_by_name is a dict: a sequence of classes in insertion order, one per key.
HasKey(dict, key) == \E i \in 1..Len(dict) : dict[i].name = key

Lookup(dict, key) == dict[CHOOSE i \in 1..Len(dict) : dict[i].name = key]

\* dict[service.name] = service: a new key is appended, an old one keeps its place.
DictSet(dict, service) ==
  IF HasKey(dict, service.name)
  THEN [ i \in 1..Len(dict) |->
           IF dict[i].name = service.name THEN service ELSE dict[i] ]
  ELSE Append(dict, service)

\* excluded_deps of a loop that does not look at the exclusions.
excluded_deps_ignored(service, excluded) == {}

\* excluded_deps = [dep for dep in service.dependencies if dep in exclude],
\* as the positions of these dependencies.
excluded_deps(service, excluded) ==
  { j \in 1..Len(service.dependencies) : service.dependencies[j] \in excluded }

\* The first loop of load_definitions, from the i-th declared class on.
RECURSIVE load_loop(_, _, _, _, _)
load_loop(services, excluded, i, dict, name_counter) ==
  IF i > Len(services)
  THEN [ error |-> NoError, all_by_name |-> dict, name_counter |-> name_counter ]
  ELSE LET service == services[i]
           kept == service.name \notin excluded
           dict2 == IF kept THEN DictSet(dict, service) ELSE dict
       IN  IF kept /\ excluded_deps(service, excluded) # {}
           THEN [ error |-> ExcludedDependency, all_by_name |-> dict2,
                  name_counter |-> name_counter ]
           ELSE load_loop(services, excluded, i + 1, dict2,
                          [ name_counter EXCEPT ![service.name] = @ + 1 ])

\* go_up_dependencies(checked) with the closure's counter passed in and out:
\* the loop over checked.dependencies from the j-th dependency on.
RECURSIVE go_up_loop(_, _, _, _, _)
go_up_loop(dict, start, dependencies, j, count) ==
  IF j > Len(dependencies)
  THEN [ raised |-> FALSE, count |-> count ]
  ELSE IF dependencies[j] = start
  THEN [ raised |-> TRUE, count |-> count ]
  ELSE IF count = Len(dict)
  THEN [ raised |-> FALSE, count |-> count ]
  ELSE LET up == go_up_loop(dict, start,
                            Lookup(dict, dependencies[j]).dependencies, 1, count + 1)
       IN  IF up.raised THEN up
           ELSE go_up_loop(dict, start, dependencies, j + 1, up.count)

go_up_dependencies(dict, start, checked, count) ==
  go_up_loop(dict, start, checked.dependencies, 1, count + 1)

\* check_circular_dependencies that takes a used-up step count for a cycle.
check_circular_dependencies_counted(dict) ==
  \E i \in 1..Len(dict) :
    /\ dict[i].dependencies # <<>>
    /\ LET up == go_up_dependencies(dict, dict[i].name, dict[i], 0)
       IN  up.raised \/ up.count = Len(dict)

\* TRUE iff check_circular_dependencies raises.
check_circular_dependencies(dict) ==
  \E i \in 1..Len(dict) :
    /\ dict[i].dependencies # <<>>
    /\ go_up_dependencies(dict, dict[i].name, dict[i], 0).raised

load_definitions(services, excluded) ==
  IF Len(services) = 0
  THEN [ error |-> NoServicesDefined, all_by_name |-> <<>> ]
  ELSE LET loop == load_loop(services, excluded, 1, <<>>, [ n \in Names |-> 0 ])
           dict == loop.all_by_name
           multiples == { n \in Names : loop.name_counter[n] > 1 }
           unresolved == \E i \in 1..Len(dict) :
                           \E j \in 1..Len(dict[i].dependencies) :
                             ~ HasKey(dict, dict[i].dependencies[j])
       IN  IF loop.error # NoError
           THEN [ error |-> loop.error, all_by_name |-> dict ]
           ELSE IF multiples # {}
           THEN [ error |-> RepeatedServiceName, all_by_name |-> dict ]
           ELSE IF unresolved
           THEN [ error |-> UnresolvedDependency, all_by_name |-> dict ]
           ELSE IF check_circular_dependencies(dict)
           THEN [ error |-> CircularDependency, all_by_name |-> dict ]
           ELSE [ error |-> NoError, all_by_name |-> dict ]

\* ------------------------------------------------------------------ state

VARIABLES
  services,             \* the declared service classes, in declaration order
  exclude,              \* start_services' exclude argument
  network_exists,       \* docker already has a network of the given name
  existing_containers,  \* what docker lists for each service on the network
  driver_pc,            \* where start_services stands
  driver_error,         \* the exception start_services ended with, if any
  all_by_name,          \* ServiceCollection.all_by_name
  network_created,      \* docker.networks.create was called
  service_names,        \* what start_all returned to start_services
  error_logged,         \* start_all logged "Failed to start all services"
  to_launch,            \* start_all: without_dependencies not yet started
  without_dependencies, \* RunningContext.without_dependencies
  service_agents,       \* keys of RunningContext.service_agents
  waiting_agents,       \* keys of RunningContext.waiting_agents
  failed,               \* ServiceCollection.failed
  service_pop_lock,     \* holder of ServiceCollection.service_pop_lock
  agent_pc,             \* each agent's state
  open_dependencies,    \* each agent's dependencies not yet reported started
  elapsed,              \* each agent's last reading of the monotonic clock
  ping_count,           \* readiness checks made by each agent
  sleep_count,          \* sleeps between readiness checks of each agent
  scan_todo,            \* service_started: waiting agents still to visit, per caller
  scan_size,            \* service_started: len(waiting_agents) when its loop began
  new_startables,       \* service_started's startable list, per calling agent
  start_calls,          \* number of agent.start() calls, per agent
  started_order,        \* the arguments of service_started, in call order
  failed_calls,         \* number of service_failed(name) calls, per name
  called_after_failure, \* agents whose start_next call came after a service_failed
  started_after_failure, \* agents started by a start_next called after a service_failed
  init_raised,          \* agents whose post_start_init raised
  containers_created,   \* container create calls made by each agent's run_image
  containers_started    \* container start calls made by each agent's run_image

inputs == <<services, exclude, network_exists, existing_containers>>
driver == <<driver_pc, driver_error, all_by_name, network_created,
            service_names, error_logged, to_launch>>
context == <<without_dependencies, service_agents, waiting_agents>>
polling == <<elapsed, ping_count, sleep_count>>
scan == <<scan_todo, scan_size>>
history == <<started_order, failed_calls, called_after_failure,
             started_after_failure, init_raised>>
runtime == <<containers_created, containers_started>>
vars == <<inputs, driver, context, failed, service_pop_lock, agent_pc,
          open_dependencies, polling, scan, new_startables, start_calls, history,
          runtime>>

\* docker lists no container for any service.
NoContainers == [ n \in Names |-> "none" ]

Free == "free"

\* The state after ServiceCollection() and before load_definitions.
Constructed ==
  /\ driver_pc = "load_definitions"
  /\ driver_error = NoError
  /\ all_by_name = <<>>
  /\ network_created = FALSE
  /\ service_names = "unset"
  /\ error_logged = FALSE
  /\ to_launch = <<>>
  /\ without_dependencies = <<>>
  /\ service_agents = {}
  /\ waiting_agents = {}
  /\ failed = FALSE
  /\ service_pop_lock = Free
  /\ agent_pc = [ n \in Names |-> "none" ]
  /\ open_dependencies = [ n \in Names |-> {} ]
  /\ elapsed = [ n \in Names |-> 0 ]
  /\ ping_count = [ n \in Names |-> 0 ]
  /\ sleep_count = [ n \in Names |-> 0 ]
  /\ scan_todo = [ n \in Names |-> <<>> ]
  /\ scan_size = [ n \in Names |-> 0 ]
  /\ new_startables = [ n \in Names |-> <<>> ]
  /\ start_calls = [ n \in Names |-> 0 ]
  /\ started_order = <<>>
  /\ failed_calls = [ n \in Names |-> 0 ]
  /\ called_after_failure = {}
  /\ started_after_failure = {}
  /\ init_raised = {}
  /\ containers_created = [ n \in Names |-> 0 ]
  /\ containers_started = [ n \in Names |-> 0 ]

Min(a, b) == IF a < b THEN a ELSE b

\* Declarations of distinct names: the first names of the pool, in pool order,
\* each with any dependency list.
UniqueDeclarations ==
  UNION { { [ i \in 1..count |-> [ name |-> NamePool[i], dependencies |-> lists[i] ] ] :
              lists \in [ 1..count -> DepLists ] } :
          count \in 1..Min(MaxServices, Len(NamePool)) }

Init ==
  /\ services \in UniqueDeclarations
  /\ exclude = {}
  /\ network_exists = FALSE
  /\ existing_containers = NoContainers
  /\ Constructed

\* The position of a name in the pool.
PoolIndex(name) == CHOOSE i \in 1..Len(NamePool) : NamePool[i] = name

\* The declarations whose dependency lists follow the order of the pool: a
\* run after load does not depend on the order of a dependency list.
OrderedDeclarations ==
  { s \in UniqueDeclarations :
      \A i \in 1..Len(s) : \A j, k \in 1..Len(s[i].dependencies) :
        j < k => PoolIndex(s[i].dependencies[j]) < PoolIndex(s[i].dependencies[k]) }

FairInit ==
  /\ services \in OrderedDeclarations
  /\ exclude = {}
  /\ network_exists = FALSE
  /\ existing_containers = NoContainers
  /\ Constructed

\* What docker lists for a service on the network: no container, a running
\* one, or one that has exited.
ContainerStatus == { "none", "running", "exited" }

\* The runs over declarations in pool order, with any container listed for
\* the declared services.
LaunchInit ==
  /\ services \in OrderedDeclarations
  /\ exclude = {}
  /\ network_exists = FALSE
  /\ existing_containers \in
       { listed \in [ Names -> ContainerStatus ] :
           \A n \in Names :
             listed[n] # "none" => \E i \in 1..Len(services) : services[i].name = n }
  /\ Constructed

\* Dependency lists over the names of the graph pool.
GraphDepLists == { s \in SeqsUpTo(Names, MaxDeps) : NoRepeat(s) }

\* The first count names of the graph pool, in pool order, with the given
\* dependency lists.
GraphDeclaration(count, lists) ==
  [ i \in 1..count |-> [ name |-> GraphPool[i], dependencies |-> lists[i] ] ]

\* Nothing excluded: the declarations of distinct names over the graph pool,
\* and every declaration order over the name pool.
GraphInit ==
  /\ \/ \E count \in 1..Min(MaxServices + 1, Len(GraphPool)) :
          \E lists \in [ 1..count -> GraphDepLists ] :
            services = GraphDeclaration(count, lists)
     \/ services \in SeqsUpTo(ServiceClasses, MaxServices)
  /\ exclude = {}
  /\ network_exists = FALSE
  /\ existing_containers = NoContainers
  /\ Constructed

LoadInit ==
  /\ services \in SeqsUpTo(ServiceClasses, MaxServices)
  /\ exclude \in SUBSET PoolNames
  /\ network_exists \in BOOLEAN
  /\ existing_containers = NoContainers
  /\ Constructed

\* ----------------------------------------------------------- start_services

\* after_load of a start_services that goes on after a failed load.
after_load_continue(error) == "networks"

\* Where start_services stands after load_definitions: an exception of
\* load_definitions is not caught and ends start_services.
after_load(error) == IF error = NoError THEN "networks" ELSE "raised"

\* collection.load_definitions(exclude=exclude)
LoadDefinitions ==
  /\ driver_pc = "load_definitions"
  /\ LET loaded == load_definitions(services, exclude)
     IN  /\ all_by_name' = loaded.all_by_name
         /\ driver_error' = loaded.error
         /\ driver_pc' = after_load(loaded.error)
  /\ UNCHANGED <<inputs, runtime, network_created, service_names, error_logged, to_launch,
                 context, failed, service_pop_lock, agent_pc, open_dependencies,
                 polling, scan, new_startables, start_calls, history>>

\* docker.networks.list; docker.networks.create when the list is empty
EnsureNetwork ==
  /\ driver_pc = "networks"
  /\ network_created' = ~ network_exists
  /\ driver_pc' = "start_all"
  /\ UNCHANGED <<inputs, runtime, driver_error, all_by_name, service_names, error_logged,
                 to_launch, context, failed, service_pop_lock, agent_pc,
                 open_dependencies, polling, scan, new_startables, start_calls, history>>

\* ------------------------------------------------------------ ServiceAgent

\* ServiceAgent.__init__: the dependencies the agent still waits for.
initial_open_dependencies(service) == Range(service.dependencies)

\* ServiceAgent.can_start
can_start(open) == open = {}

\* process_service_started that forgets every dependency at the first report.
process_service_started_any(open, started_service) ==
  IF started_service \in open THEN {} ELSE open

\* ServiceAgent.process_service_started
process_service_started(open, started_service) == open \ { started_service }

\* agent.start() on every agent of the set: each begins to run on its own thread.
StartAgents(agents) ==
  /\ agent_pc' = [ n \in Names |->
                     IF n \in agents /\ agent_pc[n] = "Waiting"
                     THEN "Launching" ELSE agent_pc[n] ]
  /\ start_calls' = [ n \in Names |->
                        IF n \in agents THEN start_calls[n] + 1 ELSE start_calls[n] ]

\* ---------------------------------------------------------- RunningContext

\* RunningContext.__init__: the agents that can start at once, in dict order.
context_without_dependencies(dict) ==
  LET keep(service) == can_start(initial_open_dependencies(service))
      picked == SelectSeq(dict, keep)
  IN  [ i \in 1..Len(picked) |-> picked[i].name ]

\* RunningContext.__init__: the keys of waiting_agents.
context_waiting_agents(dict) ==
  { dict[i].name : i \in { j \in 1..Len(dict) :
        ~ can_start(initial_open_dependencies(dict[j])) } }

\* RunningContext.done
done(waiting) == waiting = {}

\* RunningContext.__init__: the keys of waiting_agents, in dict order.
context_waiting_order(dict) ==
  LET wait(service) == ~ can_start(initial_open_dependencies(service))
      picked == SelectSeq(dict, wait)
  IN  [ i \in 1..Len(picked) |-> picked[i].name ]

\* scan_agent without the test of agent.can_start.
scan_agent_unchecked(startable, name, open, started_service) ==
  [ open |-> process_service_started(open, started_service),
    startable |-> Append(startable, name) ]

\* scan_agent that takes an agent as startable once the started service is
\* one of its dependencies, whatever else it waits for.
scan_agent_any(startable, name, open, started_service) ==
  [ open |-> process_service_started(open, started_service),
    startable |-> IF started_service \in open THEN Append(startable, name)
                  ELSE startable ]

\* service_started, one turn of its loop: the waiting agent is told of the
\* started service (open is its open dependencies) and, if it can start now,
\* its name is appended to startable.
scan_agent(startable, name, open, started_service) ==
  LET told == process_service_started(open, started_service)
  IN  [ open |-> told,
        startable |-> IF can_start(told) THEN Append(startable, name)
                      ELSE startable ]

\* pop_startable that leaves the startable agents in waiting_agents.
pop_startable_kept(waiting, startable) == waiting

\* service_started: waiting_agents after [waiting_agents.pop(name) for name in startable]
pop_startable(waiting, startable) == waiting \ Range(startable)

\* lock_available of a start_next that does not take the lock.
lock_ignored(lock) == TRUE

\* with self.service_pop_lock: the lock can be taken
lock_available(lock) == lock = Free

\* ---------------------------------------------------------------- start_all

\* self.running_context = RunningContext(self.all_by_name, ...)
StartAllConstruct ==
  /\ driver_pc = "start_all"
  /\ service_agents' = { all_by_name[i].name : i \in 1..Len(all_by_name) }
  /\ agent_pc' = [ n \in Names |->
                     IF HasKey(all_by_name, n) THEN "Waiting" ELSE "none" ]
  /\ open_dependencies' = [ n \in Names |->
                              IF HasKey(all_by_name, n)
                              THEN initial_open_dependencies(Lookup(all_by_name, n))
                              ELSE {} ]
  /\ without_dependencies' = context_without_dependencies(all_by_name)
  /\ waiting_agents' = context_waiting_agents(all_by_name)
  /\ to_launch' = without_dependencies'
  /\ driver_pc' = IF to_launch' = <<>> THEN "start_all_while" ELSE "start_all_for"
  /\ UNCHANGED <<inputs, runtime, driver_error, all_by_name, network_created, service_names,
                 error_logged, failed, service_pop_lock, polling, scan, new_startables,
                 start_calls, history>>

\* for agent in self.running_context.without_dependencies: agent.start()
StartAllLaunch ==
  /\ driver_pc = "start_all_for"
  /\ StartAgents({ Head(to_launch) })
  /\ to_launch' = Tail(to_launch)
  /\ driver_pc' = IF to_launch' = <<>> THEN "start_all_while" ELSE "start_all_for"
  /\ UNCHANGED <<inputs, runtime, driver_error, all_by_name, network_created, service_names,
                 error_logged, context, failed, service_pop_lock, open_dependencies,
                 polling, scan, new_startables, history>>

\* wait_over that waits for done alone.
wait_over_when_done(waiting, failed_flag) == done(waiting)

\* The negated condition of start_all's while loop.
wait_over(waiting, failed_flag) == done(waiting) \/ failed_flag

\* while not (self.running_context.done or self.failed): the loop is left
StartAllWaitOver ==
  /\ driver_pc = "start_all_while"
  /\ wait_over(waiting_agents, failed)
  /\ driver_pc' = "start_all_if"
  /\ UNCHANGED <<inputs, runtime, driver_error, all_by_name, network_created, service_names,
                 error_logged, to_launch, context, failed, service_pop_lock, agent_pc,
                 open_dependencies, polling, scan, new_startables, start_calls, history>>

\* if self.failed: logger.error(...); start_all returns None
StartAllReturn ==
  /\ driver_pc = "start_all_if"
  /\ error_logged' = failed
  /\ service_names' = "None"
  /\ driver_pc' = "join"
  /\ UNCHANGED <<inputs, runtime, driver_error, all_by_name, network_created, to_launch,
                 context, failed, service_pop_lock, agent_pc, open_dependencies,
                 polling, scan, new_startables, start_calls, history>>

\* logger.info("Started services: %s", ",".join(service_names))
JoinServiceNames ==
  /\ driver_pc = "join"
  /\ driver_pc' = IF service_names = "None" THEN "raised" ELSE "returned"
  /\ driver_error' = IF service_names = "None" THEN "TypeError" ELSE driver_error
  /\ UNCHANGED <<inputs, runtime, all_by_name, network_created, service_names, error_logged,
                 to_launch, context, failed, service_pop_lock, agent_pc,
                 open_dependencies, polling, scan, new_startables, start_calls, history>>

\* ------------------------------------------- start_next and service_failed

\* with self.service_pop_lock: the agent that finished takes the lock
StartNextAcquire(n) ==
  /\ agent_pc[n] = "start_next"
  /\ lock_available(service_pop_lock)
  /\ service_pop_lock' = n
  /\ agent_pc' = [ agent_pc EXCEPT ![n] = "service_started" ]
  /\ UNCHANGED <<inputs, runtime, driver, context, failed, open_dependencies, polling,
                 scan, new_startables, start_calls, history>>

\* The lock as the with statement leaves it when its body ends or raises.
Released(n) == IF service_pop_lock = n THEN Free ELSE service_pop_lock

\* service_started: self.service_agents.pop(started_service); startable = [];
\* the loop over self.waiting_agents.items() begins
ServiceStarted(n) ==
  /\ agent_pc[n] = "service_started"
  /\ IF n \in service_agents
     THEN /\ service_agents' = service_agents \ { n }
          /\ started_order' = Append(started_order, n)
          /\ scan_todo' = [ scan_todo EXCEPT ![n] =
                              SelectSeq(context_waiting_order(all_by_name),
                                        LAMBDA m : m \in waiting_agents) ]
          /\ scan_size' = [ scan_size EXCEPT ![n] = Cardinality(waiting_agents) ]
          /\ new_startables' = [ new_startables EXCEPT ![n] = <<>> ]
          /\ agent_pc' = [ agent_pc EXCEPT ![n] = "scan" ]
          /\ UNCHANGED service_pop_lock
     ELSE \* KeyError
          /\ agent_pc' = [ agent_pc EXCEPT ![n] = "KeyError" ]
          /\ service_pop_lock' = Released(n)
          /\ UNCHANGED <<service_agents, started_order, scan, new_startables>>
  /\ UNCHANGED <<inputs, runtime, driver, without_dependencies, waiting_agents, failed,
                 open_dependencies, polling, start_calls, failed_calls,
                 called_after_failure, started_after_failure, init_raised>>

\* service_started: one turn of the loop over self.waiting_agents.items()
ScanAgent(n) ==
  /\ agent_pc[n] = "scan"
  /\ IF Cardinality(waiting_agents) # scan_size[n]
     THEN \* RuntimeError: dictionary changed size during iteration
          /\ agent_pc' = [ agent_pc EXCEPT ![n] = "RuntimeError" ]
          /\ service_pop_lock' = Released(n)
          /\ UNCHANGED <<scan, open_dependencies, new_startables, waiting_agents>>
     ELSE IF scan_todo[n] # <<>>
     THEN LET name == Head(scan_todo[n])
              turn == scan_agent(new_startables[n], name, open_dependencies[name], n)
          IN  /\ open_dependencies' = [ open_dependencies EXCEPT ![name] = turn.open ]
              /\ new_startables' = [ new_startables EXCEPT ![n] = turn.startable ]
              /\ scan_todo' = [ scan_todo EXCEPT ![n] = Tail(@) ]
              /\ UNCHANGED <<scan_size, agent_pc, service_pop_lock, waiting_agents>>
     ELSE \* return [self.waiting_agents.pop(name) for name in startable]
          IF Range(new_startables[n]) \subseteq waiting_agents
          THEN /\ waiting_agents' = pop_startable(waiting_agents, new_startables[n])
               /\ agent_pc' = [ agent_pc EXCEPT ![n] = "start_new" ]
               /\ UNCHANGED <<scan, open_dependencies, new_startables,
                              service_pop_lock>>
          ELSE \* KeyError
               /\ agent_pc' = [ agent_pc EXCEPT ![n] = "KeyError" ]
               /\ service_pop_lock' = Released(n)
               /\ UNCHANGED <<scan, open_dependencies, new_startables,
                              waiting_agents>>
  /\ UNCHANGED <<inputs, runtime, driver, without_dependencies, service_agents, failed,
                 polling, start_calls, history>>

\* for agent in new_startables: agent.start(); the lock is released
StartNextLaunch(n) ==
  /\ agent_pc[n] = "start_new"
  /\ LET launched == [ m \in Names |->
                         IF m \in Range(new_startables[n]) /\ agent_pc[m] = "Waiting"
                         THEN "Launching" ELSE agent_pc[m] ]
     IN  agent_pc' = [ launched EXCEPT ![n] = "Done" ]
  /\ start_calls' = [ m \in Names |->
                        IF m \in Range(new_startables[n]) THEN start_calls[m] + 1
                        ELSE start_calls[m] ]
  /\ started_after_failure' =
       IF n \in called_after_failure
       THEN started_after_failure \cup Range(new_startables[n])
       ELSE started_after_failure
  /\ service_pop_lock' = Released(n)
  /\ new_startables' = [ new_startables EXCEPT ![n] = <<>> ]
  /\ scan_size' = [ scan_size EXCEPT ![n] = 0 ]
  /\ UNCHANGED <<inputs, runtime, driver, context, failed, open_dependencies, polling,
                 scan_todo, started_order, failed_calls, called_after_failure,
                 init_raised>>

\* service_failed that flips the flag instead of setting it.
service_failed_flipped(n) ==
  /\ failed' = ~ failed
  /\ failed_calls' = [ failed_calls EXCEPT ![n] = @ + 1 ]

\* service_failed(failed_service), as called by the agent n that failed
service_failed(n) ==
  /\ failed' = TRUE
  /\ failed_calls' = [ failed_calls EXCEPT ![n] = @ + 1 ]

\* -------------------------------------------------------- ServiceAgent.run

\* run_image that creates and starts a container whatever docker lists.
run_image_calls_always(existing) == 1

\* Launching: the number of containers run_image creates and starts, given
\* what docker lists for the service on the network: none when a container
\* is listed with status running, one otherwise.
run_image_calls(existing) == IF existing = "running" THEN 0 ELSE 1

\* Launching: run_image finds a running container and returns, or creates and
\* starts one and returns, or the creation or the start raises, which is
\* caught and reported with service_failed.
RunImage(n) ==
  /\ agent_pc[n] = "Launching"
  /\ LET calls == run_image_calls(existing_containers[n])
     IN  \E outcome \in { "returned", "create_raised", "start_raised" } :
           /\ outcome # "returned" => calls > 0
           /\ containers_created' = [ containers_created EXCEPT ![n] = @ + calls ]
           /\ containers_started' =
                [ containers_started EXCEPT ![n] =
                    IF outcome = "create_raised" THEN @ ELSE @ + calls ]
           /\ IF outcome = "returned"
              THEN /\ agent_pc' = [ agent_pc EXCEPT ![n] = "PollingReady" ]
                   /\ UNCHANGED <<failed, failed_calls>>
              ELSE /\ agent_pc' = [ agent_pc EXCEPT ![n] = "Failed" ]
                   /\ service_failed(n)
  /\ UNCHANGED <<inputs, driver, context, service_pop_lock, open_dependencies,
                 polling, scan, new_startables, start_calls, started_order,
                 called_after_failure, started_after_failure, init_raised>>

\* within_timeout of a poll loop that never looks at the clock.
within_timeout_always(elapsed_time) == TRUE

\* PollingReady: the monotonic time elapsed since polling began is within
\* the readiness timeout.
within_timeout(elapsed_time) == elapsed_time < Timeout

\* after_ping of an agent that takes any answer of ping for readiness.
after_ping_any(ready) == "Initializing"

\* PollingReady: the state after a readiness check that returned ready.
after_ping(ready) == IF ready THEN "Initializing" ELSE "PollingReady"

\* PollingReady: one readiness check within the timeout; a failed check is
\* followed by one sleep, during which the monotonic clock advances by at
\* least one tick (the clock is read first right after polling begins).
Ping(n) ==
  /\ agent_pc[n] = "PollingReady"
  /\ within_timeout(elapsed[n])
  /\ ping_count' = [ ping_count EXCEPT ![n] = @ + 1 ]
  /\ \E ready \in BOOLEAN :
       /\ agent_pc' = [ agent_pc EXCEPT ![n] = after_ping(ready) ]
       /\ IF ready
          THEN UNCHANGED <<elapsed, sleep_count>>
          ELSE /\ sleep_count' = [ sleep_count EXCEPT ![n] = @ + 1 ]
               /\ \E tick \in 1..MaxTick :
                    elapsed' = [ elapsed EXCEPT ![n] = @ + tick ]
  /\ UNCHANGED <<inputs, runtime, driver, context, failed, service_pop_lock,
                 open_dependencies, scan, new_startables, start_calls, history>>

\* PollingReady: the timeout has elapsed without a successful check.
PingTimeout(n) ==
  /\ agent_pc[n] = "PollingReady"
  /\ ~ within_timeout(elapsed[n])
  /\ agent_pc' = [ agent_pc EXCEPT ![n] = "Failed" ]
  /\ service_failed(n)
  /\ UNCHANGED <<inputs, runtime, driver, context, service_pop_lock,
                 open_dependencies, polling, scan, new_startables, start_calls,
                 started_order, called_after_failure, started_after_failure,
                 init_raised>>

\* after_init of an agent that lets the error of post_start_init pass.
after_init_uncaught(raised) == IF raised THEN "InitError" ELSE "start_next"

\* Initializing: the state after post_start_init; an error it raises is caught.
after_init(raised) == IF raised THEN "Failed" ELSE "start_next"

\* Initializing: post_start_init raises and is caught, or it returns and the
\* agent calls start_next with its name.
PostStartInit(n) ==
  /\ agent_pc[n] = "Initializing"
  /\ \E raised \in BOOLEAN :
       /\ agent_pc' = [ agent_pc EXCEPT ![n] = after_init(raised) ]
       /\ init_raised' = IF raised THEN init_raised \cup { n } ELSE init_raised
       /\ IF agent_pc'[n] = "Failed"
          THEN /\ service_failed(n)
               /\ UNCHANGED called_after_failure
          ELSE /\ called_after_failure' =
                    IF agent_pc'[n] = "start_next" /\ failed
                    THEN called_after_failure \cup { n }
                    ELSE called_after_failure
               /\ UNCHANGED <<failed, failed_calls>>
  /\ UNCHANGED <<inputs, runtime, driver, context, service_pop_lock,
                 open_dependencies, polling, scan, new_startables, start_calls,
                 started_order, started_after_failure>>

\* ------------------------------------------------------------ specifications

AgentStep(n) ==
  \/ RunImage(n)
  \/ Ping(n)
  \/ PingTimeout(n)
  \/ PostStartInit(n)
  \/ StartNextAcquire(n)
  \/ ServiceStarted(n)
  \/ ScanAgent(n)
  \/ StartNextLaunch(n)

DriverStep ==
  \/ LoadDefinitions
  \/ EnsureNetwork
  \/ StartAllConstruct
  \/ StartAllLaunch
  \/ StartAllWaitOver
  \/ StartAllReturn
  \/ JoinServiceNames

Next == DriverStep \/ \E n \in Names : AgentStep(n)

\* A run of start_services over declarations of distinct names.
Spec == Init /\ [][Next]_vars

\* The runs over declarations in pool order, with every thread scheduled fairly.
FairSpec ==
  /\ FairInit /\ [][Next]_vars
  /\ WF_vars(DriverStep)
  /\ \A n \in Names : WF_vars(AgentStep(n))

\* The runs of start_services on a network where containers may exist.
LaunchSpec == LaunchInit /\ [][Next]_vars

\* start_services over every declaration and exclusion, up to the point
\* where the agents are started.
LoadNext ==
  \/ LoadDefinitions
  \/ EnsureNetwork
  \/ StartAllConstruct
  \/ StartAllLaunch

LoadSpec == LoadInit /\ [][LoadNext]_vars

\* start_services with nothing excluded, up to the point where the agents
\* are started.
GraphSpec == GraphInit /\ [][LoadNext]_vars

\* ------------------------------------------------------------------ claims

Loaded == { n \in Names : agent_pc[n] # "none" }

\* The declared dependencies of a loaded service.
Deps(n) == IF HasKey(all_by_name, n)
           THEN Range(Lookup(all_by_name, n).dependencies) ELSE {}

\* The services reported to service_started before the i-th one.
StartedBefore(i) == { started_order[j] : j \in 1..(i - 1) }

Chain == << [ name |-> "db", dependencies |-> <<>> ],
            [ name |-> "api", dependencies |-> << "db" >> ],
            [ name |-> "web", dependencies |-> << "api" >> ] >>

\* C1: an agent is started only after every service of its dependency list
\* was reported started through start_next, so the coordinator sees every
\* service started after its dependencies; for the chain db <- api <- web
\* the started order is db, api, web.
C1_StartedAfterDependencies ==
  /\ \A n \in Names : start_calls[n] > 0 => Deps(n) \subseteq Range(started_order)
  /\ \A n \in Names : agent_pc[n] \notin { "none", "Waiting" } =>
                        Deps(n) \subseteq Range(started_order)
  /\ \A i \in 1..Len(started_order) : Deps(started_order[i]) \subseteq StartedBefore(i)
  /\ all_by_name = Chain =>
       \E k \in 0..3 : started_order = SubSeq(<< "db", "api", "web" >>, 1, k)

C1_Witness ==
  /\ all_by_name = Chain
  /\ started_order = << "db", "api", "web" >>
  /\ \A n \in Loaded : start_calls[n] = 1

\* C2: within one run agent.start is called at most once for every service.
C2_StartedAtMostOnce == \A n \in Names : start_calls[n] <= 1

C2_Witness ==
  \E n, m \in Loaded :
    /\ Deps(n) = {} /\ start_calls[n] = 1
    /\ Deps(m) # {} /\ start_calls[m] = 1
    /\ Len(started_order) >= 2

\* C3: once start_next has returned for every dependency of an agent, the
\* agent has left the waiting set and has been started, also when its
\* dependencies finish at the same time; and start_next always returns.
C3_NoLostUnlock ==
  /\ \A n \in Loaded :
       (Deps(n) # {} /\ \A d \in Deps(n) : agent_pc[d] = "Done")
         => (n \notin waiting_agents /\ start_calls[n] >= 1)
  /\ \A n \in Names : agent_pc[n] \notin { "KeyError", "RuntimeError" }

\* Two dependencies of one agent were inside start_next together (one held
\* the lock while the other waited for it), and the agent was started.
C3_Witness ==
  \E n \in Loaded : \E d, e \in Deps(n) :
    /\ d # e
    /\ agent_pc[d] = "Done" /\ agent_pc[e] = "Done"
    /\ n \notin waiting_agents /\ start_calls[n] = 1

\* The declared classes that are not excluded.
Kept == SelectSeq(services, LAMBDA c : c.name \notin exclude)

\* The names reached from the names of S along declared dependencies.
RECURSIVE DependencyClosure(_, _)
DependencyClosure(classes, S) ==
  LET more == S \cup UNION { Range(classes[i].dependencies) :
                               i \in { j \in 1..Len(classes) : classes[j].name \in S } }
  IN  IF more = S THEN S ELSE DependencyClosure(classes, more)

\* Some class depends on itself, directly or through other classes.
HasCycle(classes) ==
  \E i \in 1..Len(classes) :
    /\ classes[i].dependencies # <<>>
    /\ classes[i].name \in DependencyClosure(classes, Range(classes[i].dependencies))

UniqueNames(classes) ==
  \A i, j \in 1..Len(classes) : classes[i].name = classes[j].name => i = j

\* Every dependency of a kept class names a kept class.
Resolvable(classes) ==
  \A i \in 1..Len(classes) :
    Range(classes[i].dependencies) \subseteq { classes[j].name : j \in 1..Len(classes) }

\* C4: definitions with unique names and resolvable dependencies whose
\* dependency graph contains a cycle make load_definitions fail with the
\* circular-dependency error.
C4_CycleDetected ==
  ( /\ driver_pc # "load_definitions"
    /\ UniqueNames(services)
    /\ Resolvable(Kept)
    /\ HasCycle(Kept) )
  => driver_error = CircularDependency

Resolved == { "Done", "Failed" }

\* C5: whenever the coordinator's done is true, every agent of the run has
\* been started and has reached Done or Failed.
C5_DoneMeansResolved ==
  (Loaded # {} /\ done(waiting_agents)) => \A n \in Loaded : agent_pc[n] \in Resolved

\* C6: when start_all has returned, a run in which a service failed was
\* reported as failed, and a run not reported as failed has every loaded
\* service Done and reports exactly those services as started.
C6_FailureReported ==
  (service_names # "unset" /\ \A n \in Loaded : agent_pc[n] \in Resolved) =>
    /\ (\E n \in Loaded : agent_pc[n] = "Failed") => error_logged
    /\ ~ error_logged =>
         /\ \A n \in Loaded : agent_pc[n] = "Done"
         /\ service_names \notin { "unset", "None" }
         /\ service_names = { n \in Loaded : agent_pc[n] = "Done" }

\* C7: under fair scheduling start_all returns for every acyclic graph; when
\* it has returned with agents still waiting, it is because failed is set.
C7_StartAllReturns ==
  /\ (driver_pc = "start_all" /\ ~ HasCycle(all_by_name)) ~> (service_names = "None")
  /\ [](service_names = "None" /\ waiting_agents # {} => failed)

C7_Witness ==
  /\ service_names = "None"
  /\ ~ HasCycle(all_by_name)
  /\ \E n, m \in Loaded :
       agent_pc[n] = "Failed" /\ m \in waiting_agents /\ n \in Deps(m)

\* C8: a start_next call made after service_failed was called starts no agent.
C8_NoStartAfterFailure == started_after_failure = {}

\* The services a loaded service depends on, directly or transitively.
TransitiveDeps(n) == DependencyClosure(all_by_name, Deps(n))

\* C9: a service that depends, directly or transitively, on a Failed service
\* is never started and stays in the waiting set, and the run that start_all
\* returns from is reported as failed; so for api depending on db, with db
\* failing its readiness checks until the timeout.
C9_DependentsOfFailedStayWaiting ==
  \A n \in Loaded :
    (\E d \in TransitiveDeps(n) : agent_pc[d] = "Failed") =>
      /\ n \in waiting_agents
      /\ agent_pc[n] = "Waiting"
      /\ start_calls[n] = 0
      /\ service_names # "unset" => error_logged

C9_Witness ==
  /\ all_by_name = << [ name |-> "db", dependencies |-> <<>> ],
                      [ name |-> "api", dependencies |-> << "db" >> ] >>
  /\ agent_pc["db"] = "Failed"
  /\ sleep_count["db"] = ping_count["db"] /\ ping_count["db"] > 0
  /\ agent_pc["api"] = "Waiting"
  /\ driver_pc = "raised" /\ error_logged

\* Every readiness check of the agent so far has failed.
NeverReady(n) == sleep_count[n] = ping_count[n]

C11_InitErrorCaught ==
  \A n \in init_raised :
    /\ ping_count[n] = sleep_count[n] + 1
    /\ agent_pc[n] = "Failed"
    /\ failed_calls[n] = 1
    /\ failed
    /\ n \notin Range(started_order)
    /\ n \notin called_after_failure

C11_Witness ==
  \E n \in init_raised :
    /\ ping_count[n] > 0
    /\ agent_pc[n] = "Failed"
    /\ failed_calls[n] = 1
    /\ start_calls[n] = 1

\* The states of an agent after a readiness check succeeded.
AfterReady == { "Initializing", "start_next", "service_started", "scan",
                "start_new", "Done" }

\* The states of an agent after post_start_init returned.
AfterInit == AfterReady \ { "Initializing" }

\* The states of an agent after service_started took its name.
Announced == { "scan", "start_new", "Done" }

Occurrences(seq, x) == Cardinality({ i \in 1..Len(seq) : seq[i] = x })

\* An agent polls only after run_image, initializes only after a successful
\* check, announces only after post_start_init returned, and reports either
\* started or failed.
RunOrder(n) ==
  /\ ping_count[n] > 0 =>
       /\ agent_pc[n] \notin { "none", "Waiting", "Launching" }
       /\ start_calls[n] = 1
       /\ containers_started[n] = run_image_calls(existing_containers[n])
  /\ agent_pc[n] = "PollingReady" => ping_count[n] = sleep_count[n]
  /\ (agent_pc[n] \in AfterReady \/ n \in init_raised) =>
       ping_count[n] = sleep_count[n] + 1
  /\ agent_pc[n] \in AfterInit => n \notin init_raised
  /\ Occurrences(started_order, n) <= 1
  /\ n \in Range(started_order) <=> agent_pc[n] \in Announced
  /\ failed_calls[n] <= 1
  /\ failed_calls[n] = 1 <=> agent_pc[n] = "Failed"
  /\ ~ (failed_calls[n] > 0 /\ n \in Range(started_order))

\* C12: an agent's run goes launch, poll, initialize, announce: the hook runs
\* only after a readiness check succeeded (a service ready at the first check
\* is pinged once), start_next is reported once and only after the hook
\* returned, Done and Failed are final, no agent reports both started and
\* failed, and under fair scheduling the run comes to where every agent that
\* was started is Done or Failed.
C12_RunOrder ==
  /\ [](\A n \in Names : RunOrder(n))
  /\ [][\A n \in Names : agent_pc[n] \in Resolved => agent_pc'[n] = agent_pc[n]]_vars
  /\ <>[](\A n \in Names : agent_pc[n] \in { "none", "Waiting" } \cup Resolved)

C12_Witness ==
  \E n, m \in Loaded :
    /\ agent_pc[n] = "Done"
    /\ ping_count[n] = 1 /\ sleep_count[n] = 0
    /\ Occurrences(started_order, n) = 1 /\ failed_calls[n] = 0
    /\ agent_pc[m] = "Failed" /\ m \in init_raised

\* run_image of the agent has returned.
Launched(n) ==
  /\ agent_pc[n] \notin { "none", "Waiting", "Launching" }
  /\ agent_pc[n] = "Failed" => ping_count[n] > 0

\* C13: run_image makes no create and no start call when docker lists a
\* running container of the service on the network, and makes one create and
\* one start call when no container exists; it never makes more than one of
\* each, and none before the agent is started.
C13_RunImageIdempotent ==
  \A n \in Names :
    /\ existing_containers[n] = "running" =>
         (containers_created[n] = 0 /\ containers_started[n] = 0)
    /\ (existing_containers[n] = "none" /\ Launched(n)) =>
         (containers_created[n] = 1 /\ containers_started[n] = 1)
    /\ containers_started[n] <= containers_created[n]
    /\ containers_created[n] <= 1
    /\ agent_pc[n] \in { "none", "Waiting", "Launching" } => containers_created[n] = 0

C13_Witness ==
  \E n, m \in Loaded :
    /\ existing_containers[n] = "running" /\ Launched(n)
    /\ containers_created[n] = 0 /\ containers_started[n] = 0
    /\ existing_containers[m] = "none" /\ Launched(m)
    /\ containers_created[m] = 1 /\ containers_started[m] = 1

Diamond == << [ name |-> "db", dependencies |-> <<>> ],
              [ name |-> "api", dependencies |-> << "db" >> ],
              [ name |-> "web", dependencies |-> << "db" >> ],
              [ name |-> "cache", dependencies |-> << "api", "web" >> ] >>

\* C14: with nothing excluded, declarations of distinct names whose
\* dependencies all name declared services and form no cycle are loaded
\* without error, diamonds included: the registry holds every class, and the
\* dependencies of each are its declared ones, in declared order, each of
\* them a key of the registry.
C14_AcyclicLoads ==
  ( /\ driver_pc # "load_definitions"
    /\ exclude = {}
    /\ services # <<>>
    /\ UniqueNames(services)
    /\ Resolvable(services)
    /\ ~ HasCycle(services) )
  => /\ driver_error = NoError
     /\ all_by_name = services
     /\ \A i \in 1..Len(all_by_name) :
          \A j \in 1..Len(all_by_name[i].dependencies) :
            HasKey(all_by_name, all_by_name[i].dependencies[j])

C14_Witness ==
  /\ services = Diamond
  /\ driver_pc = "networks"
  /\ driver_error = NoError
  /\ all_by_name = Diamond

\* Some declared class that is not excluded lists an excluded name among its
\* dependencies.
DependsOnExcluded(classes) ==
  \E i \in 1..Len(classes) :
    /\ classes[i].name \notin exclude
    /\ Range(classes[i].dependencies) \cap exclude # {}

\* C15: for every exclusion set and declaration order, load_definitions
\* fails with the excluded-dependency error when a class that is not excluded
\* depends on an excluded service; and when it succeeds, the registry holds
\* no excluded class and no class that depends on an excluded service.
C15_ExcludedDependency ==
  driver_pc # "load_definitions" =>
    /\ DependsOnExcluded(services) => driver_error = ExcludedDependency
    /\ driver_error = NoError =>
         /\ \A i \in 1..Len(all_by_name) : all_by_name[i].name \notin exclude
         /\ ~ DependsOnExcluded(all_by_name)
         /\ all_by_name = Kept

\* The dependent class is declared before the excluded class it depends on.
C15_Witness ==
  /\ driver_pc = "raised"
  /\ driver_error = ExcludedDependency
  /\ Len(services) = 2
  /\ services[1].name \notin exclude
  /\ services[2].name \in exclude
  /\ services[2].name \in Range(services[1].dependencies)

\* Two declared classes that are not excluded carry the same name.
KeptNameRepeated == ~ UniqueNames(Kept)

\* C16: load_definitions fails with the repeated-service-name error, and
\* with no other outcome, whenever two classes that are not excluded share a
\* name, for every declaration order and exclusion set; classes that share a
\* name and are both excluded do not make it fail with this error.
C16_RepeatedName ==
  driver_pc # "load_definitions" =>
    /\ KeptNameRepeated => driver_error = RepeatedServiceName
    /\ ~ KeptNameRepeated => driver_error # RepeatedServiceName

\* RunningContext was constructed and start_all has started no agent yet.
JustConstructed ==
  /\ driver_pc \in { "start_all_for", "start_all_while" }
  /\ \A n \in Names : start_calls[n] = 0

\* C17: the constructor of RunningContext splits the agents of all services
\* into without_dependencies and waiting_agents, which share no agent: the
\* agents with no dependency can start and are in without_dependencies, the
\* others cannot and are in waiting_agents; and an agent cannot start, and
\* stays in waiting_agents, while one of its dependencies has not been
\* reported started.
C17_Partition ==
  /\ JustConstructed =>
       /\ Range(without_dependencies) \cap waiting_agents = {}
       /\ Range(without_dependencies) \cup waiting_agents = Loaded
       /\ service_agents = Loaded
       /\ Loaded = { all_by_name[i].name : i \in 1..Len(all_by_name) }
       /\ \A n \in Loaded :
            /\ Deps(n) = {} =>
                 (can_start(open_dependencies[n]) /\ n \in Range(without_dependencies))
            /\ Deps(n) # {} =>
                 (~ can_start(open_dependencies[n]) /\ n \in waiting_agents)
  /\ Range(without_dependencies) = { n \in Loaded : Deps(n) = {} }
  /\ NoRepeat(without_dependencies)
  /\ \A n \in Loaded :
       (\E d \in Deps(n) : d \notin Range(started_order)) =>
         (~ can_start(open_dependencies[n]) /\ n \in waiting_agents)

\* One of the two dependencies of a waiting agent was reported to it.
C17_Witness ==
  \E n \in Loaded : \E d, e \in Deps(n) :
    /\ d # e
    /\ agent_pc[d] = "Done" /\ e \notin Range(started_order)
    /\ open_dependencies[n] = { e }
    /\ n \in waiting_agents
    /\ ~ can_start(open_dependencies[n])

\* The errors load_definitions raises as ServiceLoadError.
LoadErrors == { NoServicesDefined, RepeatedServiceName, ExcludedDependency,
                CircularDependency }

\* C18: a load_definitions that fails with no services defined, a repeated
\* name, an excluded dependency or a circular dependency ends start_services
\* there: no network is created, no RunningContext is built, no agent is
\* started and no container is created or started.
C18_LoadFailureAborts ==
  driver_error \in LoadErrors =>
    /\ driver_pc = "raised"
    /\ ~ network_created
    /\ Loaded = {}
    /\ service_agents = {} /\ waiting_agents = {} /\ without_dependencies = <<>>
    /\ \A n \in Names :
         /\ start_calls[n] = 0
         /\ containers_created[n] = 0 /\ containers_started[n] = 0
    /\ ~ ENABLED LoadNext

\* The load failed on a cycle after the registry was filled, on a run where
\* the network would have had to be created.
C18_Witness ==
  /\ driver_error = CircularDependency
  /\ driver_pc = "raised"
  /\ Len(all_by_name) = Len(services)
  /\ ~ network_exists
  /\ ~ network_created

\* C19: failed is false when the collection is constructed, every call of
\* service_failed leaves it true, and no step of start_services, start_all,
\* start_next, service_started or of an agent sets it back to false.
C19_FailedMonotonic ==
  /\ ~ failed
  /\ [][ /\ failed => failed'
         /\ failed_calls' # failed_calls => failed' ]_vars
  /\ [](failed <=> \E n \in Names : failed_calls[n] > 0)

\* Two agents have failed, and an agent whose start_next came after the first
\* failure has finished it.
C19_Witness ==
  /\ failed
  /\ \E n, m \in Loaded : n # m /\ failed_calls[n] = 1 /\ failed_calls[m] = 1
  /\ \E n \in called_after_failure : agent_pc[n] = "Done"
  /\ service_names = "None"

\* The agent's thread is inside the with block of start_next.
InSection(n) == agent_pc[n] \in { "service_started", "scan", "start_new" }

\* The step changes waiting_agents or service_agents of a constructed
\* RunningContext.
MapsMutated ==
  /\ Loaded # {}
  /\ (waiting_agents' # waiting_agents \/ service_agents' # service_agents)

\* The step is taken by the thread that holds service_pop_lock, inside the
\* with block.
StepOfLockHolder ==
  /\ service_pop_lock # Free
  /\ InSection(service_pop_lock)
  /\ agent_pc'[service_pop_lock] # agent_pc[service_pop_lock]
  /\ \A m \in Names \ { service_pop_lock } : agent_pc'[m] = agent_pc[m]

\* C20: once RunningContext is constructed, waiting_agents and service_agents
\* change only in steps of the thread that holds service_pop_lock; at most
\* one thread is inside the with block of start_next, and it is the holder of
\* the lock; a call of service_failed changes failed and neither of the maps
\* nor the lock.
C20_MutationUnderLock ==
  /\ [](\A n, m \in Names : (InSection(n) /\ InSection(m)) => n = m)
  /\ [](\A n \in Names : InSection(n) <=> service_pop_lock = n)
  /\ [][MapsMutated => StepOfLockHolder]_vars
  /\ [][failed_calls' # failed_calls =>
          /\ failed'
          /\ UNCHANGED <<context, service_pop_lock, started_order>>]_vars

\* An agent holds the lock after it has taken an agent out of waiting_agents,
\* while another agent waits for the lock.
C20_Witness ==
  \E n, m \in Loaded :
    /\ agent_pc[n] = "start_new" /\ service_pop_lock = n
    /\ new_startables[n] # <<>>
    /\ Range(new_startables[n]) \cap waiting_agents = {}
    /\ n \notin service_agents
    /\ agent_pc[m] = "start_next"

====
